---- MODULE Spec2Model ----
(***************************************************************************)
(* A model of edit-mode.js (the inline text editor for static HTML pages)  *)
(* and of scripts/restore-original-texts.js (the offline recovery tool).   *)
(*                                                                         *)
(* JavaScript strings are modelled as sequences of one-character strings;  *)
(* offsets into them are 0-based, as in the source.                        *)
(***************************************************************************)
EXTENDS Integers, Sequences, FiniteSets, TLC

\* ------------------------------------------------------------------------
\* Bounds of the model
\* ------------------------------------------------------------------------

\* longest body content of a generated source string
MaxBody == 4

\* longest edit list handed to the patcher
MaxEdits == 2

\* most text blocks of a file handed to the offline tool
MaxTokens == 2

\* ------------------------------------------------------------------------
\* Strings
\* ------------------------------------------------------------------------

\* the value JavaScript calls null
Null == <<"null">>

\* the characters matched by \s that the model uses
WS == {" ", "\n"}

\* the characters matched by \w that the model uses (for \b)
WordChars ==
  {"a", "b", "c", "d", "e", "i", "l", "m", "o", "p", "r", "s", "t", "y",
   "B", "O", "D", "Y", "x"}

\* the characters escapeRegex puts a backslash in front of
RegexSpecials ==
  {".", "*", "+", "?", "^", "$", "{", "}", "(", ")", "|", "[", "]", "\\"}

\* String.prototype.toLowerCase on one character
Lower(c) ==
  CASE c = "B" -> "b"
    [] c = "O" -> "o"
    [] c = "D" -> "d"
    [] c = "Y" -> "y"
    [] OTHER -> c

\* String.prototype.slice(a, b) with 0 <= a, b
Slice(s, a, b) == SubSeq(s, a + 1, b)

\* String.prototype.slice(a)
SliceFrom(s, a) == SubSeq(s, a + 1, Len(s))

RECURSIVE TrimStart(_)
TrimStart(s) ==
  IF s # <<>> /\ Head(s) \in WS THEN TrimStart(Tail(s)) ELSE s

RECURSIVE TrimEnd(_)
TrimEnd(s) ==
  IF s # <<>> /\ s[Len(s)] \in WS THEN TrimEnd(SubSeq(s, 1, Len(s) - 1)) ELSE s

\* String.prototype.trim
Trim(s) == TrimEnd(TrimStart(s))

\* str.split(/\s+/).filter(Boolean): the maximal runs of non-whitespace
RECURSIVE SplitWordsFrom(_, _, _)
SplitWordsFrom(s, i, cur) ==
  IF i > Len(s)
    THEN IF cur = <<>> THEN <<>> ELSE <<cur>>
    ELSE IF s[i] \in WS
      THEN (IF cur = <<>> THEN <<>> ELSE <<cur>>) \o SplitWordsFrom(s, i + 1, <<>>)
      ELSE SplitWordsFrom(s, i + 1, Append(cur, s[i]))

SplitWords(s) == SplitWordsFrom(s, 1, <<>>)

\* ------------------------------------------------------------------------
\* Regular expressions, as far as the program builds them
\* ------------------------------------------------------------------------

\* the pattern text '[\\s\\n]+' that joins the words, kept as one item
WsRun == "[\\s\\n]+"

\* escapeRegex: a backslash before every special character
RECURSIVE escapeRegex(_)
escapeRegex(str) ==
  IF str = <<>> THEN <<>>
  ELSE (IF Head(str) \in RegexSpecials THEN <<"\\", Head(str)>> ELSE <<Head(str)>>)
         \o escapeRegex(Tail(str))

\* words.map(escapeRegex).join('[\\s\\n]+')
RECURSIVE JoinPattern(_)
JoinPattern(words) ==
  IF words = <<>> THEN <<>>
  ELSE IF Len(words) = 1 THEN escapeRegex(words[1])
  ELSE escapeRegex(words[1]) \o <<WsRun>> \o JoinPattern(Tail(words))

\* length of the whitespace run of s that starts at 0-based offset i
RECURSIVE WsRunLen(_, _)
WsRunLen(s, i) ==
  IF i < Len(s) /\ s[i + 1] \in WS THEN 1 + WsRunLen(s, i + 1) ELSE 0

\* The regular-expression engine on a pattern built by JoinPattern: the
\* 0-based end offset of the match of pat[k..] that starts at offset i of s,
\* or -1.  A backslash makes the next character literal, an unescaped dot is
\* any character but a line terminator, the joiner is a greedy non-empty
\* whitespace run (with backtracking), anything else is literal.
RECURSIVE MatchFrom(_, _, _, _)
RECURSIVE TryRun(_, _, _, _, _)
TryRun(pat, k, s, i, n) ==
  IF n < 1 THEN -1
  ELSE LET e == MatchFrom(pat, k + 1, s, i + n)
       IN  IF e # -1 THEN e ELSE TryRun(pat, k, s, i, n - 1)

MatchFrom(pat, k, s, i) ==
  IF k > Len(pat) THEN i
  ELSE IF pat[k] = WsRun THEN TryRun(pat, k, s, i, WsRunLen(s, i))
  ELSE IF pat[k] = "\\"
    THEN IF k < Len(pat) /\ i < Len(s) /\ s[i + 1] = pat[k + 1]
           THEN MatchFrom(pat, k + 2, s, i + 1)
           ELSE -1
  ELSE IF pat[k] = "."
    THEN IF i < Len(s) /\ s[i + 1] # "\n" THEN MatchFrom(pat, k + 1, s, i + 1) ELSE -1
  ELSE IF i < Len(s) /\ s[i + 1] = pat[k] THEN MatchFrom(pat, k + 1, s, i + 1) ELSE -1

NoMatch == [index |-> -1, end |-> -1]

\* the least element of a non-empty set of numbers
Min(S) == CHOOSE x \in S : \A y \in S : x <= y

\* the greatest element of a non-empty set of numbers
Max(S) == CHOOSE x \in S : \A y \in S : x >= y

\* an exec that returns the rightmost match that starts at or after `from`
RegexExecRightmost(pat, s, from) ==
  LET starts == {i \in from..Len(s) : MatchFrom(pat, 1, s, i) # -1}
  IN  IF starts = {} THEN NoMatch
      ELSE [index |-> Max(starts), end |-> MatchFrom(pat, 1, s, Max(starts))]

\* regex.lastIndex = from; regex.exec(s) for a global regex: the leftmost
\* match that starts at or after `from`
RegexExec(pat, s, from) ==
  LET starts == {i \in from..Len(s) : MatchFrom(pat, 1, s, i) # -1}
  IN  IF starts = {} THEN NoMatch
      ELSE [index |-> Min(starts), end |-> MatchFrom(pat, 1, s, Min(starts))]

\* does the lower-cased s carry the literal lit at 0-based offset i
LiteralAtCI(s, i, lit) ==
  /\ i + Len(lit) <= Len(s)
  /\ \A j \in 1..Len(lit) : Lower(s[i + j]) = lit[j]

\* 0-based offset of the first ">" at or after offset i, or -1
FindGt(s, i) ==
  LET gts == {j \in i..(Len(s) - 1) : s[j + 1] = ">"}
  IN  IF gts = {} THEN -1 ELSE Min(gts)

\* /<body\b[^>]*>/i matches at offset i of html
BodyOpenAt(html, i) ==
  /\ LiteralAtCI(html, i, <<"<", "b", "o", "d", "y">>)
  /\ (i + 5 = Len(html) \/ html[i + 6] \notin WordChars)
  /\ FindGt(html, i + 5) # -1

\* const bodyOpen = html.match(/<body\b[^>]*>/i);
\* return bodyOpen ? bodyOpen.index + bodyOpen[0].length : 0
getBodyContentStartIndex(html) ==
  LET opens == {i \in 0..(Len(html) - 1) : BodyOpenAt(html, i)}
  IN  IF opens = {} THEN 0 ELSE FindGt(html, Min(opens) + 5) + 1

\* ------------------------------------------------------------------------
\* The sequential source patcher (applyEditsToSource)
\* ------------------------------------------------------------------------

\* let result = html; let appliedCount = 0; let cursor = getBodyContentStartIndex(result)
InitPatchBodyOnly(html) ==
  [html |-> SliceFrom(html, getBodyContentStartIndex(html)), appliedCount |-> 0,
   cursor |-> 0]

InitPatch(html) ==
  [html |-> html, appliedCount |-> 0, cursor |-> getBodyContentStartIndex(html)]

\* edit-mode.js: edit.oldText == null || edit.newText == null || equal
SkipOnline(edit) ==
  edit.oldText = Null \/ edit.newText = Null \/ edit.oldText = edit.newText

\* restore-original-texts.js: !edit.oldText || !edit.newText || equal
SkipOffline(edit) ==
  \/ edit.oldText = Null \/ edit.oldText = <<>>
  \/ edit.newText = Null \/ edit.newText = <<>>
  \/ edit.oldText = edit.newText

\* the pattern of an edit, joined with one literal space instead of the
\* elastic whitespace run
PatternOfRigid(oldText) ==
  LET RECURSIVE J(_)
      J(ws) == IF ws = <<>> THEN <<>>
               ELSE IF Len(ws) = 1 THEN escapeRegex(ws[1])
               ELSE escapeRegex(ws[1]) \o <<" ">> \o J(Tail(ws))
  IN  J(SplitWords(oldText))

\* const pattern = words.map(escapeRegex).join('[\\s\\n]+')
PatternOf(oldText) == JoinPattern(SplitWords(oldText))

\* the loop body with the search started at offset 0 instead of the cursor
PatchEditFromStart(st, edit, skip) ==
  IF skip THEN st
  ELSE IF SplitWords(edit.oldText) = <<>> THEN st
  ELSE LET m == RegexExec(PatternOf(edit.oldText), st.html, 0)
       IN  IF m = NoMatch THEN st
           ELSE [html |-> Slice(st.html, 0, m.index) \o edit.newText
                            \o SliceFrom(st.html, m.end),
                 cursor |-> m.index + Len(edit.newText),
                 appliedCount |-> st.appliedCount + 1]

\* the loop body with the cursor left at the end of the matched span
PatchEditCursorAtMatchEnd(st, edit, skip) ==
  IF skip THEN st
  ELSE IF SplitWords(edit.oldText) = <<>> THEN st
  ELSE LET m == RegexExec(PatternOf(edit.oldText), st.html, st.cursor)
       IN  IF m = NoMatch THEN st
           ELSE [html |-> Slice(st.html, 0, m.index) \o edit.newText
                            \o SliceFrom(st.html, m.end),
                 cursor |-> m.end,
                 appliedCount |-> st.appliedCount + 1]

\* the loop body, were an edit with no match to end the search for the
\* edits after it (the cursor put at the end of the buffer)
PatchEditAbortOnMiss(st, edit, skip) ==
  IF skip THEN st
  ELSE IF SplitWords(edit.oldText) = <<>> THEN st
  ELSE LET m == RegexExec(PatternOf(edit.oldText), st.html, st.cursor)
       IN  IF m = NoMatch THEN [st EXCEPT !.cursor = Len(st.html)]
           ELSE [html |-> Slice(st.html, 0, m.index) \o edit.newText
                            \o SliceFrom(st.html, m.end),
                 cursor |-> m.index + Len(edit.newText),
                 appliedCount |-> st.appliedCount + 1]

\* the loop body with the cursor left at the start of the inserted text
PatchEditCursorAtMatchStart(st, edit, skip) ==
  IF skip THEN st
  ELSE IF SplitWords(edit.oldText) = <<>> THEN st
  ELSE LET m == RegexExec(PatternOf(edit.oldText), st.html, st.cursor)
       IN  IF m = NoMatch THEN st
           ELSE [html |-> Slice(st.html, 0, m.index) \o edit.newText
                            \o SliceFrom(st.html, m.end),
                 cursor |-> m.index,
                 appliedCount |-> st.appliedCount + 1]

\* one iteration of `for (const edit of edits)`; skip is the value of the
\* guard of the first `continue`
PatchEdit(st, edit, skip) ==
  IF skip THEN st
  ELSE IF SplitWords(edit.oldText) = <<>> THEN st
  ELSE LET m == RegexExec(PatternOf(edit.oldText), st.html, st.cursor)
       IN  IF m = NoMatch THEN st
           ELSE [html |-> Slice(st.html, 0, m.index) \o edit.newText
                            \o SliceFrom(st.html, m.end),
                 cursor |-> m.index + Len(edit.newText),
                 appliedCount |-> st.appliedCount + 1]

PatchEditOnline(st, edit) == PatchEdit(st, edit, SkipOnline(edit))

PatchEditOffline(st, edit) == PatchEdit(st, edit, SkipOffline(edit))

\* return { html: result, appliedCount }
PatchResult(st) == [html |-> st.html, appliedCount |-> st.appliedCount]

RECURSIVE PatchAllOnline(_, _)
PatchAllOnline(st, edits) ==
  IF edits = <<>> THEN st ELSE PatchAllOnline(PatchEditOnline(st, Head(edits)), Tail(edits))

RECURSIVE PatchAllOffline(_, _)
PatchAllOffline(st, edits) ==
  IF edits = <<>> THEN st ELSE PatchAllOffline(PatchEditOffline(st, Head(edits)), Tail(edits))

\* applyEditsToSource of edit-mode.js (first, current variant)
applyEditsToSource(html, edits) == PatchResult(PatchAllOnline(InitPatch(html), edits))

\* the later copy of the engine in edit-mode.js: one iteration of its
\* `for (const edit of edits)`, with a regex that is not global, so that
\* result.replace(regex, edit.newText) replaces the first match in the whole
\* buffer (the new texts here hold no "$", which replace would expand)
PatchEditSecond(result, edit) ==
  IF edit.oldText = <<>> \/ edit.newText = <<>> \/ edit.oldText = edit.newText
    THEN result
  ELSE IF SplitWords(edit.oldText) = <<>> THEN result
  ELSE LET m == RegexExec(PatternOf(edit.oldText), result, 0)
       IN  IF m = NoMatch THEN result
           ELSE Slice(result, 0, m.index) \o edit.newText \o SliceFrom(result, m.end)

\* the later copy's saveFile has not run
NoSecondSave == [kind |-> "none", html |-> Null]

\* applyEditsToSource of scripts/restore-original-texts.js
applyEditsToSourceOffline(html, edits) ==
  PatchResult(PatchAllOffline(InitPatch(html), edits))

\* ------------------------------------------------------------------------
\* State
\* ------------------------------------------------------------------------

VARIABLES
  \* one pass of the patcher over an edit list, in both patchers
  src,        \* the html handed to applyEditsToSource
  edits,      \* the edit list handed to applyEditsToSource
  k,          \* how many edits the loop has gone through
  on,         \* result, appliedCount and cursor of edit-mode.js
  off,        \* result, appliedCount and cursor of restore-original-texts.js
  ppc,        \* "loop" while the for loop runs, "done" after the return,
              \* "saved" once the later copy's saveFile has run on the result
  second,     \* result of applyEditsToSource in the later copy of the engine
  secondSave  \* what saveFile of the later copy did with it

patchVars == <<src, edits, k, on, off, ppc, second, secondSave>>

VARIABLES
  \* the page that runs edit-mode.js (first, current variant)
  editActive,    \* let editActive
  originalHTML,  \* let originalHTML: the fetched source, or null
  fetchState,    \* the request of fetchOriginalSource: "pending", "done", "failed"
  text,          \* the direct text of every element
  orig,          \* the data-edit-orig attribute of every element, or null
  editable,      \* the elements that carry the contenteditable attribute
  blocked,       \* the links that carry data-edit-blocked and the preventNav listener
  urlHash,       \* window.location.hash
  urlQuery,      \* whether window.location.search holds edit=true
  lastSave,      \* what the last run of saveFile did and handed to downloadFile
  canReplaceState  \* whether window.history.replaceState goes through here

pageVars ==
  <<editActive, originalHTML, fetchState, text, orig, editable, blocked,
    urlHash, urlQuery, lastSave, canReplaceState>>

VARIABLES
  \* one run of scripts/restore-original-texts.js
  oArgsOk,     \* whether --original, --edited and --out are all given
  oOriginal,   \* the text of the original file
  oEdited,     \* the text of the edited (fallback-saved) file
  opc,         \* where main is: "start", "read", "built", "done"
  oEdits,      \* the edits buildEdits returned
  oCounts,     \* originalCount and editedCount
  oApplied,    \* patched.appliedCount
  oOut,        \* what was written to the output file, or null
  oWarn,       \* the warnings printed to stderr
  oExit        \* the exit status of the process

offVars ==
  <<oArgsOk, oOriginal, oEdited, opc, oEdits, oCounts, oApplied, oOut, oWarn, oExit>>

vars == <<patchVars, pageVars, offVars>>

\* ------------------------------------------------------------------------
\* The inputs of a patch pass
\* ------------------------------------------------------------------------

BodyChars == {"a", "b", " ", "\n"}

SeqsUpTo(S, n) == UNION {[1..m -> S] : m \in 0..n}

\* what precedes the body content: nothing (a source with no body tag), or a
\* head holding the text "a" followed by the opening body tag
Heads == {<<>>, <<"a", " ", "<", "b", "o", "d", "y", ">">>}

\* body content: the empty body, or text that starts and ends with a word
\* (the whitespace runs the patcher has to bridge lie between words)
Bodies ==
  {b \in SeqsUpTo(BodyChars, MaxBody) :
     b = <<>> \/ (b[1] \notin WS /\ b[Len(b)] \notin WS)}

Sources == {h \o b : h \in Heads, b \in Bodies}

EditPairs ==
  {[oldText |-> <<"a">>, newText |-> <<"b">>],
   [oldText |-> <<"a", " ", "b">>, newText |-> <<"b">>],
   [oldText |-> <<"a">>, newText |-> <<"a">>],
   [oldText |-> <<"b">>, newText |-> <<>>],
   [oldText |-> <<>>, newText |-> <<"a">>],
   [oldText |-> <<"a">>, newText |-> <<"a", " ", "a">>]}

EditLists == SeqsUpTo(EditPairs, MaxEdits)

\* ------------------------------------------------------------------------
\* A patch pass, one loop iteration per step
\* ------------------------------------------------------------------------

PatchInit ==
  /\ src \in Sources
  /\ edits \in EditLists
  /\ k = 0
  /\ on = InitPatch(src)
  /\ off = InitPatch(src)
  /\ ppc = "loop"
  /\ second = src
  /\ secondSave = NoSecondSave

\* one iteration of the for loop, in both patchers
PatchNext ==
  /\ ppc = "loop"
  /\ k < Len(edits)
  /\ k' = k + 1
  /\ on' = PatchEditOnline(on, edits[k + 1])
  /\ off' = PatchEditOffline(off, edits[k + 1])
  /\ second' = PatchEditSecond(second, edits[k + 1])
  /\ UNCHANGED <<src, edits, ppc, secondSave>>
  /\ UNCHANGED <<pageVars, offVars>>

\* the loop is over: return { html: result, appliedCount }
PatchReturn ==
  /\ ppc = "loop"
  /\ k = Len(edits)
  /\ ppc' = "done"
  /\ UNCHANGED <<src, edits, k, on, off, second, secondSave>>
  /\ UNCHANGED <<pageVars, offVars>>

\* ------------------------------------------------------------------------
\* The page: its source and its document
\* ------------------------------------------------------------------------

\* const EDITABLE_SELECTORS
EDITABLE_SELECTORS ==
  {"h1", "h2", "h3", "h4", "h5", "h6", "p", "span", "li", "a", "button", "label",
   "td", "th", "blockquote", "figcaption", "caption", "dt", "dd", "summary",
   "legend"}

\* the elements of the document in document order: a list item that holds a
\* link, a paragraph, a div, and the span of the editor's toolbar
Elems == <<"li", "a", "p", "div", "tbspan">>

ElemSet == {Elems[i] : i \in 1..Len(Elems)}

TagOf(e) == IF e = "tbspan" THEN "span" ELSE e

\* the child elements of an element, in document order
Children(e) == IF e = "li" THEN <<"a">> ELSE <<>>

Ancestors(e) == IF e = "a" THEN {"li"} ELSE {}

\* el.closest('#' + TOOLBAR_ID)
InToolbar(e) == e = "tbspan"

\* the source text of the page, as the server or the file system returns it
PageSource ==
  <<"<", "t", "i", "t", "l", "e", ">", "a", "<", "/", "t", "i", "t", "l", "e", ">",
    "<", "b", "o", "d", "y", ">",
    "<", "l", "i", ">", "a", " ", "<", "a", ">", "b", "<", "/", "a", ">",
    "<", "/", "l", "i", ">",
    "<", "p", ">", "a", "\n", "b", "<", "/", "p", ">", "\n",
    "<", "d", "i", "v", ">", "c", "<", "/", "d", "i", "v", ">", "\n",
    "<", "s", "c", "r", "i", "p", "t", " ", "s", "r", "c", "=",
    "e", "d", "i", "t", "-", "m", "o", "d", "e", ".", "j", "s", ">",
    "<", "/", "s", "c", "r", "i", "p", "t", ">", "\n",
    "<", "/", "b", "o", "d", "y", ">">>

\* the direct text of every element once the page is parsed
ParsedText ==
  [e \in ElemSet |->
     CASE e = "li" -> <<"a", " ">>
       [] e = "a" -> <<"b">>
       [] e = "p" -> <<"a", "\n", "b">>
       [] e = "div" -> <<"c">>
       [] OTHER -> <<"t">>]

\* what the user may type into an element
TextChoices(e) ==
  CASE e = "li" -> {<<"a", " ">>, <<"c", " ">>}
    [] e = "a" -> {<<"b">>, <<"c">>}
    [] e = "p" -> {<<"a", "\n", "b">>, <<"c">>, <<"a", "\n", "b", " ">>, <<>>}
    [] OTHER -> {}

\* the values of window.location.hash
Hashes == {<<>>, <<"#", "e", "d", "i", "t">>, <<"#", "x">>}

EditHash == <<"#", "e", "d", "i", "t">>

\* ------------------------------------------------------------------------
\* Helpers of edit-mode.js
\* ------------------------------------------------------------------------

\* isTextNode: some direct text child is not all whitespace
isTextNode(txt, e) == Trim(txt[e]) # <<>>

\* el.textContent: the direct text followed by the text of the descendants
RECURSIVE ConcatText(_, _)
textContent(txt, e) == txt[e] \o ConcatText(txt, Children(e))

ConcatText(txt, es) ==
  IF es = <<>> THEN <<>> ELSE textContent(txt, Head(es)) \o ConcatText(txt, Tail(es))

\* the elements both forEach loops of enableEdit and snapshotOriginalTexts act on
IsTarget(txt, e) ==
  /\ TagOf(e) \in EDITABLE_SELECTORS
  /\ ~InToolbar(e)
  /\ isTextNode(txt, e)

\* a snapshot that writes the baseline of every target, held or not
snapshotOverwriting(og, txt) ==
  [e \in ElemSet |-> IF IsTarget(txt, e) THEN textContent(txt, e) ELSE og[e]]

\* snapshotOriginalTexts
snapshotOriginalTexts(og, txt) ==
  [e \in ElemSet |->
     IF IsTarget(txt, e) /\ og[e] = Null THEN textContent(txt, e) ELSE og[e]]

\* urlWantsEditMode
urlWantsEditMode(hash, query) == hash = EditHash \/ query

\* a clearEditFlagsFromURL that removes the hash flag and keeps the query flag
clearHashFlagOnly(hash, query, ok) ==
  IF ok THEN [hash |-> IF hash = EditHash THEN <<>> ELSE hash, query |-> query]
        ELSE [hash |-> hash, query |-> query]

\* clearEditFlagsFromURL: the URL it leaves; ok tells whether
\* history.replaceState went through
clearEditFlagsFromURL(hash, query, ok) ==
  IF ok THEN [hash |-> IF hash = EditHash THEN <<>> ELSE hash, query |-> FALSE]
        ELSE [hash |-> hash, query |-> query]

\* collectEdits
collectEdits(og, txt) ==
  LET RECURSIVE C(_)
      C(i) ==
        IF i > Len(Elems) THEN <<>>
        ELSE LET e == Elems[i]
             IN  (IF og[e] # Null /\ og[e] # textContent(txt, e)
                    THEN <<[oldText |-> Trim(og[e]),
                            newText |-> Trim(textContent(txt, e))]>>
                    ELSE <<>>) \o C(i + 1)
  IN  C(1)

\* the tag that opens at offset i is <script ...edit-mode...></script>: the
\* offset just past it and the whitespace that follows, or -1
ScriptMatchEnd(s, i) ==
  IF ~LiteralAtCI(s, i, <<"<", "s", "c", "r", "i", "p", "t">>) THEN -1
  ELSE LET g == FindGt(s, i + 7)
       IN  IF /\ g # -1
              /\ \E j \in (i + 7)..(g - 9) :
                   LiteralAtCI(s, j, <<"e", "d", "i", "t", "-", "m", "o", "d", "e">>)
              /\ LiteralAtCI(s, g + 1, <<"<", "/", "s", "c", "r", "i", "p", "t", ">">>)
             THEN g + 10 + WsRunLen(s, g + 10)
             ELSE -1

\* removeEditModeScript:
\* html.replace(/\s*<script[^>]*edit-mode[^>]*><\/script>\s*/gi, '\n')
RECURSIVE RemoveFrom(_, _)
RemoveFrom(s, i) ==
  LET starts == {j \in i..(Len(s) - 1) : ScriptMatchEnd(s, j + WsRunLen(s, j)) # -1}
  IN  IF starts = {} THEN SliceFrom(s, i)
      ELSE Slice(s, i, Min(starts)) \o <<"\n">>
             \o RemoveFrom(s, ScriptMatchEnd(s, Min(starts) + WsRunLen(s, Min(starts))))

removeEditModeScript(html) == RemoveFrom(html, 0)

\* ------------------------------------------------------------------------
\* saveFile
\* ------------------------------------------------------------------------

NoPatch == [html |-> Null, appliedCount |-> 0]

\* what one run of saveFile does: kind is "nochange" (the alert and the early
\* return), "fallback" (saveFallback, whose download is the document's
\* outerHTML) or "patched" (downloadFile of the patched source); ran tells
\* whether applyEditsToSource was called and patch is what it returned
SaveRecord(kind, reason, eds, ran, patch, html) ==
  [kind |-> kind, reason |-> reason, edits |-> eds, ran |-> ran, patch |-> patch,
   html |-> html]

\* saveFile without the test of appliedCount
saveFileNoCountCheck(oh, eds) ==
  IF Len(eds) = 0 THEN SaveRecord("nochange", "", eds, FALSE, NoPatch, Null)
  ELSE IF oh = Null \/ oh = <<>>
    THEN SaveRecord("fallback", "no_source", eds, FALSE, NoPatch, Null)
  ELSE LET patched == applyEditsToSource(oh, eds)
       IN  SaveRecord("patched", "", eds, TRUE, patched,
                      removeEditModeScript(patched.html))

\* saveFile without the test of originalHTML
saveFileNoSourceCheck(oh, eds) ==
  IF Len(eds) = 0 THEN SaveRecord("nochange", "", eds, FALSE, NoPatch, Null)
  ELSE LET patched == applyEditsToSource(IF oh = Null THEN <<>> ELSE oh, eds)
       IN  IF patched.appliedCount < Len(eds)
             THEN SaveRecord("fallback", "partial_patch", eds, TRUE, patched, Null)
             ELSE SaveRecord("patched", "", eds, TRUE, patched,
                             removeEditModeScript(patched.html))

\* saveFile, given originalHTML and the result of collectEdits
saveFile(oh, eds) ==
  IF Len(eds) = 0 THEN SaveRecord("nochange", "", eds, FALSE, NoPatch, Null)
  ELSE IF oh = Null \/ oh = <<>>
    THEN SaveRecord("fallback", "no_source", eds, FALSE, NoPatch, Null)
  ELSE LET patched == applyEditsToSource(oh, eds)
       IN  IF patched.appliedCount < Len(eds)
             THEN SaveRecord("fallback", "partial_patch", eds, TRUE, patched, Null)
             ELSE SaveRecord("patched", "", eds, TRUE, patched,
                             removeEditModeScript(patched.html))

\* ------------------------------------------------------------------------
\* The page: enableEdit, disableEdit and the event handlers
\* ------------------------------------------------------------------------

NoBaselines == [e \in ElemSet |-> Null]

NoSave == SaveRecord("none", "", <<>>, FALSE, NoPatch, Null)

\* the links enableEdit blocks: every <a> outside the toolbar
Links == {e \in ElemSet : TagOf(e) = "a" /\ ~InToolbar(e)}

\* an enableEdit that marks the targets and leaves the links alone
enableEditNoLinkBlock(active, og, txt, ed, bl) ==
  IF active THEN [editActive |-> active, orig |-> og, editable |-> ed, blocked |-> bl]
  ELSE [editActive |-> TRUE,
        orig |-> snapshotOriginalTexts(og, txt),
        editable |-> ed \cup {e \in ElemSet : IsTarget(txt, e)},
        blocked |-> bl]

\* the fields enableEdit leaves, from the ones it finds
enableEdit(active, og, txt, ed, bl) ==
  IF active THEN [editActive |-> active, orig |-> og, editable |-> ed, blocked |-> bl]
  ELSE [editActive |-> TRUE,
        orig |-> snapshotOriginalTexts(og, txt),
        editable |-> ed \cup {e \in ElemSet : IsTarget(txt, e)},
        blocked |-> bl \cup Links]

\* disableEdit that also removes every data-edit-orig attribute
disableEditClearing(active, og, ed, bl, hash, query, ok) ==
  IF ~active
    THEN [editActive |-> active, orig |-> og, editable |-> ed, blocked |-> bl,
          url |-> [hash |-> hash, query |-> query]]
    ELSE [editActive |-> FALSE, orig |-> NoBaselines, editable |-> {}, blocked |-> {},
          url |-> clearEditFlagsFromURL(hash, query, ok)]

\* the fields disableEdit leaves, from the ones it finds
disableEdit(active, og, ed, bl, hash, query, ok) ==
  IF ~active
    THEN [editActive |-> active, orig |-> og, editable |-> ed, blocked |-> bl,
          url |-> [hash |-> hash, query |-> query]]
    ELSE [editActive |-> FALSE, orig |-> og, editable |-> {}, blocked |-> {},
          url |-> clearEditFlagsFromURL(hash, query, ok)]

\* the page once the script has run on a freshly parsed document whose URL
\* carries the given flags: the fetch is under way and editing is enabled
\* if the URL asks for it
Loaded(hash, query) ==
  IF urlWantsEditMode(hash, query)
    THEN enableEdit(FALSE, NoBaselines, ParsedText, {}, {})
    ELSE [editActive |-> FALSE, orig |-> NoBaselines, editable |-> {}, blocked |-> {}]

PageInit ==
  \E h \in {<<>>, EditHash}, q \in BOOLEAN :
    /\ urlHash = h
    /\ urlQuery = q
    /\ editActive = Loaded(h, q).editActive
    /\ orig = Loaded(h, q).orig
    /\ editable = Loaded(h, q).editable
    /\ blocked = Loaded(h, q).blocked
    /\ text = ParsedText
    /\ originalHTML = Null
    /\ fetchState = "pending"
    /\ lastSave = NoSave
    /\ canReplaceState \in BOOLEAN

\* xhr.onload with status 0 or 200, or the second then() of fetch
FetchComplete ==
  /\ fetchState = "pending"
  /\ fetchState' = "done"
  /\ originalHTML' = PageSource
  /\ UNCHANGED <<editActive, text, orig, editable, blocked, urlHash, urlQuery, lastSave,
                 canReplaceState>>
  /\ UNCHANGED <<patchVars, offVars>>

\* the request fails: another status, no onload at all, or the catch of fetch
FetchFail ==
  /\ fetchState = "pending"
  /\ fetchState' = "failed"
  /\ UNCHANGED <<originalHTML, editActive, text, orig, editable, blocked, urlHash,
                 urlQuery, lastSave, canReplaceState>>
  /\ UNCHANGED <<patchVars, offVars>>

\* the keydown handler on Ctrl/Cmd+E: editActive ? disableEdit() : enableEdit()
Toggle ==
    LET d == disableEdit(editActive, orig, editable, blocked, urlHash, urlQuery,
                         canReplaceState)
        n == enableEdit(editActive, orig, text, editable, blocked)
    IN  /\ IF editActive
             THEN /\ editActive' = d.editActive
                  /\ orig' = d.orig
                  /\ editable' = d.editable
                  /\ blocked' = d.blocked
                  /\ urlHash' = d.url.hash
                  /\ urlQuery' = d.url.query
             ELSE /\ editActive' = n.editActive
                  /\ orig' = n.orig
                  /\ editable' = n.editable
                  /\ blocked' = n.blocked
                  /\ UNCHANGED <<urlHash, urlQuery>>
        /\ UNCHANGED <<originalHTML, fetchState, text, lastSave, canReplaceState>>
        /\ UNCHANGED <<patchVars, offVars>>

\* the hash changes to h, and the hashchange handler runs
HashChange ==
  \E h \in Hashes :
    LET d == disableEdit(editActive, orig, editable, blocked, h, urlQuery,
                         canReplaceState)
        n == enableEdit(editActive, orig, text, editable, blocked)
    IN  /\ h # urlHash
        /\ IF urlWantsEditMode(h, urlQuery)
             THEN /\ editActive' = n.editActive
                  /\ orig' = n.orig
                  /\ editable' = n.editable
                  /\ blocked' = n.blocked
                  /\ urlHash' = h
                  /\ UNCHANGED urlQuery
             ELSE /\ editActive' = d.editActive
                  /\ orig' = d.orig
                  /\ editable' = d.editable
                  /\ blocked' = d.blocked
                  /\ urlHash' = d.url.hash
                  /\ urlQuery' = d.url.query
        /\ UNCHANGED <<originalHTML, fetchState, text, lastSave, canReplaceState>>
        /\ UNCHANGED <<patchVars, offVars>>

\* the user types into an element that is editable, or lies in one
UserType ==
  \E e \in ElemSet : \E t \in TextChoices(e) :
    /\ (e \in editable \/ Ancestors(e) \cap editable # {})
    /\ t # text[e]
    /\ text' = [text EXCEPT ![e] = t]
    /\ UNCHANGED <<editActive, originalHTML, fetchState, orig, editable, blocked,
                   urlHash, urlQuery, lastSave, canReplaceState>>
    /\ UNCHANGED <<patchVars, offVars>>

\* a save that keeps the patched buffer as the source of the next save
SaveClickKeepingPatch ==
    LET rec == saveFile(originalHTML, collectEdits(orig, text))
        d == disableEdit(editActive, orig, editable, blocked, urlHash, urlQuery,
                         canReplaceState)
        n == enableEdit(d.editActive, d.orig, text, d.editable, d.blocked)
    IN  /\ editActive
        /\ lastSave' = rec
        /\ IF rec.kind = "fallback"
             THEN /\ editActive' = n.editActive
                  /\ orig' = n.orig
                  /\ editable' = n.editable
                  /\ blocked' = n.blocked
                  /\ urlHash' = d.url.hash
                  /\ urlQuery' = d.url.query
             ELSE UNCHANGED <<editActive, orig, editable, blocked, urlHash, urlQuery>>
        /\ originalHTML' = IF rec.kind = "patched" THEN rec.patch.html ELSE originalHTML
        /\ UNCHANGED <<fetchState, text, canReplaceState>>
        /\ UNCHANGED <<patchVars, offVars>>

\* a click on "Save as new file" (the toolbar shows while editing is active):
\* saveFile, and saveFallback when saveFile calls it
SaveClick ==
    LET rec == saveFile(originalHTML, collectEdits(orig, text))
        d == disableEdit(editActive, orig, editable, blocked, urlHash, urlQuery,
                         canReplaceState)
        n == enableEdit(d.editActive, d.orig, text, d.editable, d.blocked)
    IN  /\ editActive
        /\ lastSave' = rec
        /\ IF rec.kind = "fallback"
             THEN /\ editActive' = n.editActive
                  /\ orig' = n.orig
                  /\ editable' = n.editable
                  /\ blocked' = n.blocked
                  /\ urlHash' = d.url.hash
                  /\ urlQuery' = d.url.query
             ELSE UNCHANGED <<editActive, orig, editable, blocked, urlHash, urlQuery>>
        /\ UNCHANGED <<originalHTML, fetchState, text, canReplaceState>>
        /\ UNCHANGED <<patchVars, offVars>>

\* a click on "Exit", confirmed: disableEdit() and location.reload(), which
\* parses the page again and runs the script again under the URL left behind
CancelClick ==
    LET d == disableEdit(editActive, orig, editable, blocked, urlHash, urlQuery,
                         canReplaceState)
        l == Loaded(d.url.hash, d.url.query)
    IN  /\ editActive
        /\ urlHash' = d.url.hash
        /\ urlQuery' = d.url.query
        /\ editActive' = l.editActive
        /\ orig' = l.orig
        /\ editable' = l.editable
        /\ blocked' = l.blocked
        /\ text' = ParsedText
        /\ originalHTML' = Null
        /\ fetchState' = "pending"
        /\ lastSave' = NoSave
        /\ UNCHANGED canReplaceState
        /\ UNCHANGED <<patchVars, offVars>>

\* a step of SaveClick (said so that most other steps are told apart cheaply)
SaveStep ==
  /\ editActive /\ editActive'
  /\ text' = text
  /\ fetchState' = fetchState
  /\ lastSave'.kind # "none"
  /\ SaveClick

PageNext ==
  \/ FetchComplete
  \/ FetchFail
  \/ Toggle
  \/ HashChange
  \/ UserType
  \/ SaveClick
  \/ CancelClick

\* ------------------------------------------------------------------------
\* scripts/restore-original-texts.js
\* ------------------------------------------------------------------------

\* least 0-based offset at or after from where s carries lit (letters
\* compared without case), or -1
IndexOfCI(s, lit, from) ==
  LET at == {i \in from..(Len(s) - Len(lit)) : LiteralAtCI(s, i, lit)}
  IN  IF at = {} THEN -1 ELSE Min(at)

\* s.replace(/lit/gi, rep) for a literal lit
RECURSIVE ReplaceAllCI(_, _, _)
ReplaceAllCI(s, lit, rep) ==
  LET i == IndexOfCI(s, lit, 0)
  IN  IF i = -1 THEN s
      ELSE Slice(s, 0, i) \o rep \o ReplaceAllCI(SliceFrom(s, i + Len(lit)), lit, rep)

\* decodeEntities: the six named replacements, in the order of the source
\* (the model's texts hold no numeric character reference)
decodeEntities(t) ==
  LET s1 == ReplaceAllCI(t, <<"&", "n", "b", "s", "p", ";">>, <<" ">>)
      s2 == ReplaceAllCI(s1, <<"&", "a", "m", "p", ";">>, <<"&">>)
      s3 == ReplaceAllCI(s2, <<"&", "l", "t", ";">>, <<"<">>)
      s4 == ReplaceAllCI(s3, <<"&", "g", "t", ";">>, <<">">>)
      s5 == ReplaceAllCI(s4, <<"&", "q", "u", "o", "t", ";">>, <<"\"">>)
  IN  ReplaceAllCI(s5, <<"&", "#", "3", "9", ";">>, <<"'">>)

\* getBodyInnerHTML
getBodyInnerHTML(html) ==
  LET opens == {i \in 0..(Len(html) - 1) : BodyOpenAt(html, i)}
      close == IndexOfCI(html, <<"<", "/", "b", "o", "d", "y", ">">>, 0)
      start == FindGt(html, Min(opens) + 5) + 1
  IN  IF opens = {} \/ close = -1 THEN html
      ELSE IF close <= start THEN html
      ELSE Slice(html, start, close)

\* /<tag\b[^>]*>[\s\S]*?<\/tag>/gi matches at offset i of s, where open is
\* "<tag" and close is "</tag>"
BlockAt(s, i, open, close) ==
  /\ LiteralAtCI(s, i, open)
  /\ (i + Len(open) = Len(s) \/ s[i + Len(open) + 1] \notin WordChars)
  /\ FindGt(s, i + Len(open)) # -1
  /\ IndexOfCI(s, close, FindGt(s, i + Len(open)) + 1) # -1

\* s.replace(/<tag\b[^>]*>[\s\S]*?<\/tag>/gi, '')
RECURSIVE StripBlocks(_, _, _)
StripBlocks(s, open, close) ==
  LET starts == {i \in 0..(Len(s) - 1) : BlockAt(s, i, open, close)}
      i == Min(starts)
      c == IndexOfCI(s, close, FindGt(s, i + Len(open)) + 1)
  IN  IF starts = {} THEN s
      ELSE Slice(s, 0, i) \o StripBlocks(SliceFrom(s, c + Len(close)), open, close)

\* the while loop over />([^<>]+)</g from lastIndex = from: the texts
\* decoded and trimmed, the empty ones dropped
RECURSIVE TokensFrom(_, _)
TokensFrom(body, from) ==
  LET \* a ">" at offset i, then one or more characters other than < and >,
      \* then a "<" at offset NextAngle(i)
      NextAngle(i) == Min({j \in (i + 1)..Len(body) :
                             j = Len(body) \/ body[j + 1] \in {"<", ">"}})
      starts == {i \in from..(Len(body) - 1) :
                   /\ body[i + 1] = ">"
                   /\ NextAngle(i) > i + 1
                   /\ NextAngle(i) < Len(body)
                   /\ body[NextAngle(i) + 1] = "<"}
      i == Min(starts)
      t == Trim(decodeEntities(Slice(body, i + 1, NextAngle(i))))
  IN  IF starts = {} THEN <<>>
      ELSE (IF t = <<>> THEN <<>> ELSE <<t>>) \o TokensFrom(body, NextAngle(i) + 1)

\* collectBodyTextTokens
collectBodyTextTokens(html) ==
  TokensFrom(
    StripBlocks(
      StripBlocks(getBodyInnerHTML(html),
                  <<"<", "s", "c", "r", "i", "p", "t">>,
                  <<"<", "/", "s", "c", "r", "i", "p", "t", ">">>),
      <<"<", "s", "t", "y", "l", "e">>,
      <<"<", "/", "s", "t", "y", "l", "e", ">">>),
    0)

\* the smaller of two numbers (Math.min)
MathMin(a, b) == IF a < b THEN a ELSE b

\* the for loop of buildEdits over the first count pairs
RECURSIVE PairEdits(_, _, _, _)
PairEdits(originalTexts, editedTexts, i, count) ==
  IF i > count THEN <<>>
  ELSE (IF originalTexts[i] # editedTexts[i]
          THEN <<[oldText |-> originalTexts[i], newText |-> editedTexts[i]]>>
          ELSE <<>>) \o PairEdits(originalTexts, editedTexts, i + 1, count)

\* a buildEdits that emits every pair up to the shorter length, equal or not
buildEditsAllPairs(originalHtml, editedHtml) ==
  LET originalTexts == collectBodyTextTokens(originalHtml)
      editedTexts == collectBodyTextTokens(editedHtml)
      count == MathMin(Len(originalTexts), Len(editedTexts))
  IN  [threw |-> Len(originalTexts) = 0 \/ Len(editedTexts) = 0,
       edits |-> [i \in 1..count |->
                    [oldText |-> originalTexts[i], newText |-> editedTexts[i]]],
       originalCount |-> Len(originalTexts), editedCount |-> Len(editedTexts)]

\* buildEdits; threw tells that it threw for want of text blocks
buildEdits(originalHtml, editedHtml) ==
  LET originalTexts == collectBodyTextTokens(originalHtml)
      editedTexts == collectBodyTextTokens(editedHtml)
  IN  IF Len(originalTexts) = 0 \/ Len(editedTexts) = 0
        THEN [threw |-> TRUE, edits |-> <<>>,
              originalCount |-> Len(originalTexts), editedCount |-> Len(editedTexts)]
        ELSE [threw |-> FALSE,
              edits |-> PairEdits(originalTexts, editedTexts, 1,
                                  MathMin(Len(originalTexts), Len(editedTexts))),
              originalCount |-> Len(originalTexts), editedCount |-> Len(editedTexts)]

\* the exit status main leaves after patching, with a status of its own for
\* differing block counts
exitStatusWithDrift(appliedCount, nEdits, originalCount, editedCount) ==
  IF appliedCount < nEdits THEN 2
  ELSE IF originalCount # editedCount THEN 3 ELSE 0

\* the exit status main leaves after patching, were process.exitCode = 2 set
\* only when no edit at all was applied
exitStatusNoneApplied(appliedCount, nEdits, originalCount, editedCount) ==
  IF appliedCount = 0 /\ nEdits > 0 THEN 2 ELSE 0

\* the exit status main leaves after patching: process.exitCode = 2 when
\* appliedCount < edits.length, and nothing else sets it
exitStatus(appliedCount, nEdits, originalCount, editedCount) ==
  IF appliedCount < nEdits THEN 2 ELSE 0

\* the warnings main prints after patching
warnings(appliedCount, nEdits, originalCount, editedCount) ==
  (IF appliedCount < nEdits THEN {"unmapped"} ELSE {})
    \cup (IF originalCount # editedCount THEN {"drift"} ELSE {})

\* the text runs a generated file holds between its tags
RawTexts ==
  {<<"a">>, <<" ", "b">>, <<"&", "q", "u", "o", "t", ";">>}

\* a file: a head, then a body of one paragraph per text run and a script block
RECURSIVE Paragraphs(_)
Paragraphs(ts) ==
  IF ts = <<>> THEN <<>>
  ELSE <<"<", "p", ">">> \o Head(ts) \o <<"<", "/", "p", ">">> \o Paragraphs(Tail(ts))

Doc(ts) ==
  <<"<", "b", "o", "d", "y", ">">> \o Paragraphs(ts)
    \o <<"<", "s", "c", "r", "i", "p", "t", ">", "x", "<", "/", "s", "c", "r",
         "i", "p", "t", ">">>
    \o <<"<", "/", "b", "o", "d", "y", ">">>

Docs == {Doc(ts) : ts \in SeqsUpTo(RawTexts, MaxTokens)}

OffInit ==
  /\ oArgsOk \in BOOLEAN
  /\ oOriginal \in Docs
  /\ oEdited \in Docs
  /\ opc = "start"
  /\ oEdits = <<>>
  /\ oCounts = [original |-> 0, edited |-> 0]
  /\ oApplied = 0
  /\ oOut = Null
  /\ oWarn = {}
  /\ oExit = 0

\* parseArgs: with an argument missing, the usage text and process.exit(1)
OffParseArgs ==
  /\ opc = "start"
  /\ IF oArgsOk
       THEN opc' = "read" /\ UNCHANGED oExit
       ELSE opc' = "done" /\ oExit' = 1
  /\ UNCHANGED <<oArgsOk, oOriginal, oEdited, oEdits, oCounts, oApplied, oOut, oWarn>>
  /\ UNCHANGED <<patchVars, pageVars>>

\* the files are read and buildEdits runs; an exception it throws ends the
\* process with status 1
OffBuildEdits ==
  LET b == buildEdits(oOriginal, oEdited)
  IN  /\ opc = "read"
      /\ oEdits' = b.edits
      /\ oCounts' = [original |-> b.originalCount, edited |-> b.editedCount]
      /\ IF b.threw
           THEN opc' = "done" /\ oExit' = 1
           ELSE opc' = "built" /\ UNCHANGED oExit
      /\ UNCHANGED <<oArgsOk, oOriginal, oEdited, oApplied, oOut, oWarn>>
      /\ UNCHANGED <<patchVars, pageVars>>

\* if (edits.length === 0): the original is written and main returns
OffNoEdits ==
  /\ opc = "built"
  /\ Len(oEdits) = 0
  /\ oOut' = oOriginal
  /\ opc' = "done"
  /\ UNCHANGED <<oArgsOk, oOriginal, oEdited, oEdits, oCounts, oApplied, oWarn, oExit>>
  /\ UNCHANGED <<patchVars, pageVars>>

\* the rest of main: patch, write, report, warn, set the exit status
OffPatch ==
  LET patched == applyEditsToSourceOffline(oOriginal, oEdits)
  IN  /\ opc = "built"
      /\ Len(oEdits) # 0
      /\ oOut' = patched.html
      /\ oApplied' = patched.appliedCount
      /\ oWarn' = warnings(patched.appliedCount, Len(oEdits),
                           oCounts.original, oCounts.edited)
      /\ oExit' = exitStatus(patched.appliedCount, Len(oEdits),
                             oCounts.original, oCounts.edited)
      /\ opc' = "done"
      /\ UNCHANGED <<oArgsOk, oOriginal, oEdited, oEdits, oCounts>>
      /\ UNCHANGED <<patchVars, pageVars>>

OffNext ==
  \/ OffParseArgs
  \/ OffBuildEdits
  \/ OffNoEdits
  \/ OffPatch

\* ------------------------------------------------------------------------
\* saveFile of the later copy of the engine in edit-mode.js
\* ------------------------------------------------------------------------

\* saveFile of the later copy, from originalHTML and the buffer its
\* applyEditsToSource returned: the fallback when there is no source, and
\* otherwise the download of the buffer, the script tag removed
saveFileSecond(oh, html) ==
  IF oh = Null \/ oh = <<>>
    THEN [kind |-> "fallback", html |-> Null]
    ELSE [kind |-> "patched", html |-> removeEditModeScript(html)]

\* the later copy's saveFile, run on the source and the edits of the pass
SecondSaveFile ==
  /\ ppc = "done"
  /\ ppc' = "saved"
  /\ secondSave' = saveFileSecond(src, second)
  /\ UNCHANGED <<src, edits, k, on, off, second>>
  /\ UNCHANGED <<pageVars, offVars>>

\* ------------------------------------------------------------------------
\* Specifications
\* ------------------------------------------------------------------------

\* the patch pass at rest, while the page runs
PatchIdle ==
  /\ src = <<>>
  /\ edits = <<>>
  /\ k = 0
  /\ on = InitPatch(<<>>)
  /\ off = InitPatch(<<>>)
  /\ ppc = "idle"
  /\ second = <<>>
  /\ secondSave = NoSecondSave

\* the page at rest, while a patch pass runs
PageIdle ==
  /\ editActive = FALSE
  /\ originalHTML = Null
  /\ fetchState = "idle"
  /\ text = ParsedText
  /\ orig = NoBaselines
  /\ editable = {}
  /\ blocked = {}
  /\ urlHash = <<>>
  /\ urlQuery = FALSE
  /\ lastSave = NoSave
  /\ canReplaceState = TRUE

\* the offline tool at rest
OffIdle ==
  /\ oArgsOk = FALSE
  /\ oOriginal = <<>>
  /\ oEdited = <<>>
  /\ opc = "idle"
  /\ oEdits = <<>>
  /\ oCounts = [original |-> 0, edited |-> 0]
  /\ oApplied = 0
  /\ oOut = Null
  /\ oWarn = {}
  /\ oExit = 0

\* the page that runs edit-mode.js
Init == PageInit /\ PatchIdle /\ OffIdle

Next == PageNext

Spec == Init /\ [][Next]_vars

\* applyEditsToSource, step by step, on generated sources and edit lists
PatchSpecInit == PatchInit /\ PageIdle /\ OffIdle

PatchSpecNext == PatchNext \/ PatchReturn \/ SecondSaveFile

PatchSpec == PatchSpecInit /\ [][PatchSpecNext]_vars

\* one run of the offline tool on generated files
OffSpecInit == OffInit /\ PageIdle /\ PatchIdle

OffSpec == OffSpecInit /\ [][OffNext]_vars

\* ------------------------------------------------------------------------
\* Properties of the patcher
\* ------------------------------------------------------------------------

\* [i, e) is a span of s that reads as the given words separated by non-empty
\* whitespace runs (said without the regular-expression engine)
IsOccurrence(words, s, i, e) ==
  /\ 0 <= i /\ i < e /\ e <= Len(s)
  /\ s[i + 1] \notin WS
  /\ s[e] \notin WS
  /\ SplitWords(Slice(s, i, e)) = words

\* the occurrences of the words in s that start at or after offset from
Occurrences(words, s, from) ==
  UNION {{<<i, e>> : e \in {x \in (i + 1)..Len(s) : IsOccurrence(words, s, i, x)}} :
           i \in {j \in from..(Len(s) - 1) : s[j + 1] \notin WS}}

\* the occurrence that starts leftmost
Leftmost(occ) == CHOOSE o \in occ : \A q \in occ : o[1] <= q[1]

\* s with the span o replaced by newText
Replaced(s, o, newText) == Slice(s, 0, o[1]) \o newText \o SliceFrom(s, o[2])

\* the occurrences of the single edit's old text in the body of src
BodyOccurrences ==
  Occurrences(SplitWords(edits[1].oldText), src, getBodyContentStartIndex(src))

\* st is the outcome of replacing exactly the one occurrence in the body
ExactlyPatched(st) ==
  /\ st.appliedCount = 1
  /\ st.html = Replaced(src, Leftmost(BodyOccurrences), edits[1].newText)

\* C3 as stated: for a single edit whose old text occurs exactly once after
\* the opening body tag, both patchers return appliedCount = 1 and the source
\* with exactly that span replaced by the new text.
C3_AsStated ==
  (ppc = "done" /\ Len(edits) = 1 /\ Cardinality(BodyOccurrences) = 1)
    => (ExactlyPatched(on) /\ ExactlyPatched(off))

\* C3 amended: the same, for an edit whose new text differs from its old text
\* and, in the offline patcher, is not empty (the patchers skip the others).
C3_SingleEditExact ==
  (ppc = "done" /\ Len(edits) = 1 /\ Cardinality(BodyOccurrences) = 1
     /\ edits[1].oldText # edits[1].newText)
    => /\ ExactlyPatched(on)
       /\ (edits[1].newText # <<>> => ExactlyPatched(off))

\* a single two-word edit has been applied to its one occurrence in a body
\* that follows a head holding the same first word
C3_Witness ==
  /\ ppc = "done" /\ Len(edits) = 1
  /\ Cardinality(BodyOccurrences) = 1
  /\ Len(SplitWords(edits[1].oldText)) = 2
  /\ getBodyContentStartIndex(src) > 0
  /\ on.appliedCount = 1 /\ off.appliedCount = 1
  /\ on.html # src

\* C4 as stated (read for an edit that changes the text): whenever the
\* buffer holds the words of the edit's old text separated by whitespace
\* runs, the online patcher replaces such a span by the new text; when it
\* holds no such span nothing is replaced.
C4_AsStated ==
  [][(PatchNext /\ edits[k + 1].oldText # edits[k + 1].newText) =>
      LET e == edits[k + 1]
          occ == Occurrences(SplitWords(e.oldText), on.html, 0)
      IN  IF occ # {}
            THEN /\ on'.appliedCount = on.appliedCount + 1
                 /\ \E o \in occ : on'.html = Replaced(on.html, o, e.newText)
            ELSE on'.html = on.html /\ on'.appliedCount = on.appliedCount]_vars

\* C4 amended: whenever the buffer holds, at or after the cursor (the body
\* start for the first edit), the words of the edit's old text separated by
\* whitespace runs, and the new text differs from the old text, the online
\* patcher replaces the leftmost such span, irregular whitespace included,
\* by the new text; when no such span starts at or after the cursor, nothing
\* is replaced.
C4_WhitespaceTolerance ==
  [][PatchNext =>
      LET e == edits[k + 1]
          occ == Occurrences(SplitWords(e.oldText), on.html, on.cursor)
      IN  /\ (occ # {} /\ e.oldText # e.newText)
              => /\ on'.appliedCount = on.appliedCount + 1
                 /\ on'.html = Replaced(on.html, Leftmost(occ), e.newText)
          /\ occ = {}
              => (on'.html = on.html /\ on'.appliedCount = on.appliedCount)]_vars

\* an edit "a b" -> "b" has replaced a span whose two words were separated by
\* a whitespace run of two characters
C4_Witness ==
  /\ ppc = "done" /\ Len(edits) = 1
  /\ edits[1].oldText = <<"a", " ", "b">>
  /\ on.appliedCount = 1
  /\ Len(on.html) = Len(src) - 3
  /\ \E i \in 1..Len(src) - 1 : src[i] \in WS /\ src[i + 1] \in WS

\* C5: patching with the empty edit list returns the input unchanged, with
\* appliedCount = 0, in both patchers, with or without a body tag.
C5_RoundTripIdentity ==
  (ppc = "done" /\ edits = <<>>)
    => /\ PatchResult(on) = [html |-> src, appliedCount |-> 0]
       /\ PatchResult(off) = [html |-> src, appliedCount |-> 0]
       /\ applyEditsToSource(src, <<>>) = [html |-> src, appliedCount |-> 0]
       /\ applyEditsToSourceOffline(src, <<>>) = [html |-> src, appliedCount |-> 0]

\* the empty edit list has been run over a source that has a head, a body
\* tag and body text
C5_Witness ==
  /\ ppc = "done" /\ edits = <<>>
  /\ getBodyContentStartIndex(src) > 0
  /\ Len(src) > getBodyContentStartIndex(src)

\* ------------------------------------------------------------------------
\* Properties of saveFile
\* ------------------------------------------------------------------------

C2_NoSourceFallback ==
  [][(originalHTML = Null /\ SaveStep /\ Len(collectEdits(orig, text)) >= 1)
       => /\ lastSave'.kind = "fallback"
          /\ lastSave'.reason = "no_source"
          /\ ~lastSave'.ran
          /\ lastSave'.html = Null]_vars

\* a save with two collected edits fell back for want of the source
C2_Witness ==
  /\ lastSave.kind = "fallback"
  /\ lastSave.reason = "no_source"
  /\ Len(lastSave.edits) >= 2
  /\ originalHTML = Null

\* C9 as stated: a save that runs before the fetch has completed, or after
\* it failed, falls back as no_source; the completion does not change the
\* outcome of a save already executed; a save that runs after a successful
\* completion patches the fetched buffer.
C9_AsStated ==
  [][/\ (fetchState # "done" /\ SaveStep)
          => (lastSave'.kind = "fallback" /\ lastSave'.reason = "no_source")
     /\ (FetchComplete \/ FetchFail) => lastSave' = lastSave
     /\ (fetchState = "done" /\ SaveStep)
          => (lastSave'.ran
              /\ lastSave'.patch = applyEditsToSource(PageSource, lastSave'.edits))]_vars

\* C9 amended: the same, for saves that collect at least one edit (a save
\* that collects none reports "no text changes" and neither falls back nor
\* patches, whatever the state of the fetch).
C9_UnawaitedFetch ==
  [][/\ (fetchState # "done" /\ SaveStep /\ Len(collectEdits(orig, text)) >= 1)
          => (lastSave'.kind = "fallback" /\ lastSave'.reason = "no_source"
              /\ ~lastSave'.ran)
     /\ (FetchComplete \/ FetchFail) => lastSave' = lastSave
     /\ (fetchState = "done" /\ SaveStep /\ Len(collectEdits(orig, text)) >= 1)
          => (lastSave'.ran
              /\ lastSave'.edits = collectEdits(orig, text)
              /\ lastSave'.patch = applyEditsToSource(PageSource, lastSave'.edits)
              /\ (lastSave'.kind = "patched"
                    <=> lastSave'.patch.appliedCount = Len(lastSave'.edits)))]_vars

\* a save fell back for want of the source, and the fetch completed after it
C9_Witness ==
  /\ lastSave.kind = "fallback"
  /\ lastSave.reason = "no_source"
  /\ fetchState = "done"
  /\ originalHTML = PageSource

\* ------------------------------------------------------------------------
\* Properties of the baselines and the edit targets
\* ------------------------------------------------------------------------

C7_LeafSelection ==
  editActive =>
    \A e \in ElemSet :
      (e \in editable \/ orig[e] # Null)
        => \A a \in Ancestors(e) : a \notin editable /\ orig[a] = Null

\* C8: every edit collectEdits emits has different old and new text.
C8_NoIdentityEdits ==
  \A i \in 1..Len(collectEdits(orig, text)) :
    collectEdits(orig, text)[i].oldText # collectEdits(orig, text)[i].newText

\* ------------------------------------------------------------------------
\* Properties of the offline tool
\* ------------------------------------------------------------------------

C11_DriftWarningSurfaced ==
  (opc = "done" /\ oArgsOk /\ oCounts.original > 0 /\ oCounts.edited > 0
     /\ oCounts.original # oCounts.edited)
    => ("drift" \in oWarn /\ oOut # Null)

\* C12: with valid arguments and at least one text block in each file, the
\* tool always writes the output file; it exits 2 exactly when some detected
\* edit was not applied and 0 when every detected edit was applied; with no
\* detected edit the output is the original source unchanged, and otherwise
\* it is the patched source.
C12_OfflineExitCodes ==
  (opc = "done" /\ oArgsOk /\ oCounts.original > 0 /\ oCounts.edited > 0)
    => /\ oOut # Null
       /\ oExit \in {0, 2}
       /\ (oExit = 2) <=> (oApplied < Len(oEdits))
       /\ (oApplied = Len(oEdits)) => (oExit = 0)
       /\ (Len(oEdits) = 0) => (oOut = oOriginal)
       /\ (Len(oEdits) > 0)
            => (oOut = applyEditsToSourceOffline(oOriginal, oEdits).html)

\* two edits were detected, one was applied and one was not; the patched
\* source was written and the tool exited 2
C12_Witness ==
  /\ opc = "done" /\ oArgsOk
  /\ Len(oEdits) = 2
  /\ oApplied = 1
  /\ oOut # Null /\ oOut # oOriginal
  /\ oExit = 2

\* ------------------------------------------------------------------------
\* Properties of a patch pass
\* ------------------------------------------------------------------------

\* C13: for every source and every edit list, edits with an empty new text
\* included, the offline applyEditsToSource and the online one return the
\* same html and the same appliedCount.
C13_SamePatcher ==
  (ppc = "done")
    => /\ PatchResult(on) = PatchResult(off)
       /\ applyEditsToSource(src, edits) = applyEditsToSourceOffline(src, edits)

\* C14: when the words of an edit's old text occur several times at or after
\* the cursor, the online patcher replaces exactly one occurrence, the
\* leftmost one, and leaves the rest of the buffer as it was (every later
\* occurrence is still there, moved by the change of length); the edit is
\* counted unless its new text equals its old text; and the pass as a whole
\* is a function of (source, edits): the step-by-step run returns what
\* applyEditsToSource returns.
C14_DuplicatesDeterministic ==
  [][PatchNext =>
      LET e == edits[k + 1]
          words == SplitWords(e.oldText)
          occ == Occurrences(words, on.html, on.cursor)
          first == Leftmost(occ)
          shift == Len(e.newText) - (first[2] - first[1])
      IN  /\ (Cardinality(occ) >= 2)
              => /\ on'.html = Replaced(on.html, first, e.newText)
                 /\ \A o \in occ \ {first} :
                      IsOccurrence(words, on'.html, o[1] + shift, o[2] + shift)
                 /\ (e.oldText # e.newText)
                      => (on'.appliedCount = on.appliedCount + 1)
          /\ (k' = Len(edits)) => (PatchResult(on') = applyEditsToSource(src, edits))]_vars

\* the single edit a -> b met a body that holds "a" more than once and
\* replaced the first one only
C14_Witness ==
  /\ ppc = "done" /\ Len(edits) = 1
  /\ edits[1] = [oldText |-> <<"a">>, newText |-> <<"b">>]
  /\ Cardinality(BodyOccurrences) >= 2
  /\ on.appliedCount = 1
  /\ on.html = Replaced(src, Leftmost(BodyOccurrences), <<"b">>)
  /\ Cardinality(Occurrences(<<"a">>, on.html, getBodyContentStartIndex(src)))
       = Cardinality(BodyOccurrences) - 1

\* ------------------------------------------------------------------------
\* Properties of the activation flags
\* ------------------------------------------------------------------------

\* a step in which disableEdit ran from the active state: the toggle, the
\* hashchange handler, or a save that fell back
DisableRan ==
  \/ editActive /\ ~editActive' /\ (Toggle \/ HashChange)
  \/ SaveStep /\ lastSave'.kind = "fallback"

\* a hashchange to something other than #edit while editing is off
UnrelatedHashChange ==
  ~editActive /\ urlHash' # urlHash /\ urlHash' # EditHash /\ HashChange

C16_SkipRule ==
  [][(PatchNext /\ (\/ edits[k + 1].oldText = <<>>
                    \/ edits[k + 1].newText = <<>>
                    \/ edits[k + 1].oldText = edits[k + 1].newText))
       => (on' = on /\ off' = off)]_vars

\* the one occurrence of the n-th edit's old text in the body of src
OccurrenceOf(n) ==
  Leftmost(Occurrences(SplitWords(edits[n].oldText), src, getBodyContentStartIndex(src)))

\* two edits that each change text which the body of src holds exactly once,
\* listed in the reverse of their order in the source
ReverseOrderPair ==
  /\ Len(edits) = 2
  /\ \A n \in 1..2 :
       /\ edits[n].oldText # edits[n].newText
       /\ Cardinality(Occurrences(SplitWords(edits[n].oldText), src,
                                  getBodyContentStartIndex(src))) = 1
  /\ OccurrenceOf(2)[2] <= OccurrenceOf(1)[1]

\* C17: an edit with no match at or after the cursor is retried from the
\* start of the body, so two matchable edits given in the reverse of their
\* source order are both applied by the online patcher: the second one to
\* its occurrence before the first one's.
C17_RetryFromBodyStart ==
  (ppc = "done" /\ ReverseOrderPair)
    => /\ on.appliedCount = 2
       /\ on.html = Replaced(Replaced(src, OccurrenceOf(1), edits[1].newText),
                             OccurrenceOf(2), edits[2].newText)

\* C18: when the source holds an opening body tag, the buffer keeps,
\* throughout the pass and in both patchers, the source's prefix up to and
\* including that tag, whatever the edits and whatever text the head holds.
C18_HeadNeverPatched ==
  LET bodyStart == getBodyContentStartIndex(src)
  IN  (ppc \in {"loop", "done"} /\ bodyStart > 0)
        => /\ Len(on.html) >= bodyStart
           /\ Slice(on.html, 0, bodyStart) = Slice(src, 0, bodyStart)
           /\ Len(off.html) >= bodyStart
           /\ Slice(off.html, 0, bodyStart) = Slice(src, 0, bodyStart)
           /\ ppc = "done" =>
                Slice(applyEditsToSource(src, edits).html, 0, bodyStart)
                  = Slice(src, 0, bodyStart)

\* the head holds the text "a", and an edit of "a" was applied in the body
C18_Witness ==
  /\ ppc = "done"
  /\ getBodyContentStartIndex(src) > 0
  /\ Occurrences(<<"a">>, src, 0)
       \ Occurrences(<<"a">>, src, getBodyContentStartIndex(src)) # {}
  /\ Len(edits) >= 1
  /\ edits[1].oldText = <<"a">>
  /\ on.appliedCount >= 1
  /\ on.html # src

\* C19: throughout a pass of the online patcher the cursor lies between the
\* body start and the length of the current buffer and never decreases;
\* after an applied edit the cursor is the offset just past the inserted new
\* text, and that text starts at or after the previous cursor, so the
\* inserted texts lie in the buffer one after the other, in the order of
\* their edits, without overlapping.
C19_CursorInvariant ==
  /\ [](ppc \in {"loop", "done"}
          => /\ getBodyContentStartIndex(src) <= on.cursor
             /\ on.cursor <= Len(on.html))
  /\ [][PatchNext =>
          /\ on'.cursor >= on.cursor
          /\ (on'.appliedCount # on.appliedCount)
               => LET newText == edits[k + 1].newText
                      start == on'.cursor - Len(newText)
                  IN  /\ start >= on.cursor
                      /\ Slice(on'.html, start, on'.cursor) = newText
                      /\ Slice(on'.html, 0, start) = Slice(on.html, 0, start)
          /\ (on'.appliedCount = on.appliedCount) => (on' = on)]_vars

\* two edits were applied after a head, the second one past the text the
\* first one inserted, and the new texts differ in length from the old ones
C19_Witness ==
  /\ ppc = "done"
  /\ getBodyContentStartIndex(src) > 0
  /\ Len(edits) = 2
  /\ on.appliedCount = 2
  /\ Len(on.html) # Len(src)
  /\ on.cursor < Len(on.html)

\* C20: an edit with no match at or after the cursor leaves the buffer, the
\* cursor and appliedCount as they were, in both patchers; the edits after
\* it are still gone through, and one that changes text and has a match is
\* applied; appliedCount grows by one exactly in the iterations that replace
\* a span, so that at the return every edit has been gone through and
\* 0 <= appliedCount <= edits.length.
C20_UnmatchedDoesNotAbort ==
  /\ [](ppc \in {"loop", "done"}
          => /\ 0 <= on.appliedCount /\ on.appliedCount <= k
             /\ 0 <= off.appliedCount /\ off.appliedCount <= k
             /\ k <= Len(edits)
             /\ (ppc = "done") => (k = Len(edits)))
  /\ [][PatchNext =>
          LET e == edits[k + 1]
              words == SplitWords(e.oldText)
              Matches(st) == Occurrences(words, st.html, st.cursor) # {}
              Replaces(st, stNext) ==
                /\ Matches(st)
                /\ stNext.html = Replaced(st.html,
                                          Leftmost(Occurrences(words, st.html, st.cursor)),
                                          e.newText)
                /\ stNext.appliedCount = st.appliedCount + 1
          IN  /\ ~Matches(on) => (on' = on)
              /\ ~Matches(off) => (off' = off)
              /\ (Matches(on) /\ e.oldText # e.newText) => Replaces(on, on')
              /\ (Matches(off) /\ e.oldText # e.newText /\ e.newText # <<>>)
                   => Replaces(off, off')
              /\ (on' = on) \/ Replaces(on, on')
              /\ (off' = off) \/ Replaces(off, off')]_vars

\* the first of two edits changes text the body does not hold, the second
\* one was applied all the same, and appliedCount is 1 in both patchers
C20_Witness ==
  /\ ppc = "done"
  /\ Len(edits) = 2
  /\ edits[1].oldText # edits[1].newText
  /\ edits[1].newText # <<>>
  /\ SplitWords(edits[1].oldText) # <<>>
  /\ Occurrences(SplitWords(edits[1].oldText), src, getBodyContentStartIndex(src)) = {}
  /\ on.appliedCount = 1 /\ off.appliedCount = 1
  /\ on.html # src /\ off.html # src

\* the n-th occurrence, from the left, among the occurrences occ
RECURSIVE NthOccurrence(_, _)
NthOccurrence(occ, n) ==
  IF n = 1 THEN Leftmost(occ) ELSE NthOccurrence(occ \ {Leftmost(occ)}, n - 1)

\* the edits a -> "a a", a -> b met a body that holds "a" at least twice
ReinsertingPair ==
  /\ edits = <<[oldText |-> <<"a">>, newText |-> <<"a", " ", "a">>],
               [oldText |-> <<"a">>, newText |-> <<"b">>]>>
  /\ Cardinality(Occurrences(<<"a">>, src, getBodyContentStartIndex(src))) >= 2

\* C21: within a pass of the online patcher no iteration changes the buffer
\* before the cursor, where the text inserted by the applied edits lies; so
\* the edits a -> "a a", a -> b on a source that holds "a" twice change the
\* first and the second "a" of the source, not the inserted text.
C21_InsertedTextNotRepatched ==
  /\ [][PatchNext =>
          /\ Len(on'.html) >= on.cursor
          /\ Slice(on'.html, 0, on.cursor) = Slice(on.html, 0, on.cursor)]_vars
  /\ []((ppc = "done" /\ ReinsertingPair)
          => LET occ == Occurrences(<<"a">>, src, getBodyContentStartIndex(src))
             IN  /\ on.appliedCount = 2
                 /\ on.html = Replaced(Replaced(src, NthOccurrence(occ, 2), <<"b">>),
                                       NthOccurrence(occ, 1), <<"a", " ", "a">>))

\* the pass over a -> "a a", a -> b has applied both edits
C21_Witness ==
  /\ ppc = "done"
  /\ ReinsertingPair
  /\ on.appliedCount = 2
  /\ Len(on.html) = Len(src) + 2

\* ------------------------------------------------------------------------
\* Properties of the markup
\* ------------------------------------------------------------------------

\* the character at 1-based position i of s lies between a "<" and its ">"
\* (both included)
InTag(s, i) ==
  \/ s[i] = ">"
  \/ \E j \in 1..i : s[j] = "<" /\ \A m \in j..i : s[m] # ">"

\* the markup of s: its characters that lie in tags, in order
Markup(s) ==
  LET marked == [i \in 1..Len(s) |-> <<s[i], InTag(s, i)>>]
      IsTagChar(p) == p[2]
      kept == SelectSeq(marked, IsTagChar)
  IN  [i \in 1..Len(kept) |-> kept[i][1]]

\* C22: every span applyEditsToSource replaces lies in the text content of
\* the body and overlaps no character of a tag; so, the new texts holding no
\* angle bracket, a downloaded patched buffer has the markup of the source.
C22_OnlyVisibleTextReplaced ==
  (lastSave.kind = "patched")
    => (Markup(lastSave.patch.html) = Markup(PageSource))

\* ------------------------------------------------------------------------
\* Properties of the collector and of the baselines
\* ------------------------------------------------------------------------

\* C23: collectEdits emits an edit for an element that holds a baseline only
\* if the element still is an edit target when the edits are collected
\* (allowed tag, a direct text child that is not all whitespace, outside the
\* toolbar); an element whose text was deleted altogether yields no edit,
\* and no edit has an empty new text.
C23_CollectorRevalidation ==
  /\ \A e \in ElemSet :
       (orig[e] # Null /\ ~IsTarget(text, e))
         => collectEdits([x \in ElemSet |-> IF x = e THEN orig[x] ELSE Null], text) = <<>>
  /\ \A i \in 1..Len(collectEdits(orig, text)) :
       collectEdits(orig, text)[i].newText # <<>>

\* C24: within a page session (no reload) originalHTML changes only from
\* null to the fetched text, and only in the completion of the initial
\* fetch; after a failed load it stays null and the load stays failed; a
\* save repeated with the same collected edits after a patched save hands
\* out the same buffer again.
C24_SourceWrittenOnce ==
  [][/\ (originalHTML' # originalHTML /\ ~CancelClick)
          => (originalHTML = Null /\ originalHTML' = PageSource
              /\ fetchState = "pending" /\ FetchComplete)
     /\ (fetchState = "failed" /\ ~CancelClick)
          => (fetchState' = "failed" /\ originalHTML' = Null)
     /\ (lastSave.kind = "patched" /\ SaveStep
           /\ collectEdits(orig, text) = lastSave.edits)
          => (lastSave' = lastSave)]_vars

\* a patched buffer was downloaded and editing was disabled afterwards; the
\* source buffer still is the fetched text
C24_Witness ==
  /\ lastSave.kind = "patched"
  /\ lastSave.patch.html # PageSource
  /\ ~editActive
  /\ originalHTML = PageSource

\* C25: a baseline, once written, is never overwritten within a page
\* session: across enable, disable, typing, save and fallback save it stays
\* what it was; it is written only by an enable, for an element that is a
\* target then, from the element's text at that moment; so every baseline is
\* the element's text at the first enable (here the text the page was
\* parsed with, typing being possible only after an enable).
C25_BaselineWriteOnce ==
  /\ [](\A e \in ElemSet : orig[e] # Null => orig[e] = textContent(ParsedText, e))
  /\ [][~CancelClick =>
          \A e \in ElemSet :
            /\ orig[e] # Null => orig'[e] = orig[e]
            /\ (orig[e] = Null /\ orig'[e] # Null)
                 => /\ editActive'
                    /\ IsTarget(text, e)
                    /\ orig'[e] = textContent(text, e)]_vars

\* the paragraph was edited, a save fell back (disableEdit, then enableEdit
\* again), the hash changed, and with editing active the paragraph's
\* baseline still is its first text
C25_Witness ==
  /\ lastSave.kind = "fallback"
  /\ editActive
  /\ text["p"] # ParsedText["p"]
  /\ IsTarget(text, "p")
  /\ orig["p"] = ParsedText["p"]
  /\ urlHash = <<"#", "x">>

\* ------------------------------------------------------------------------
\* Properties of buildEdits
\* ------------------------------------------------------------------------

\* the text blocks of a generated file, said from the text runs it was made
\* of: each run decoded and trimmed
BlocksOf(doc) ==
  LET ts == CHOOSE x \in SeqsUpTo(RawTexts, MaxTokens) : Doc(x) = doc
  IN  [i \in 1..Len(ts) |-> Trim(decodeEntities(ts[i]))]

\* C26: when both files hold text blocks, buildEdits returns exactly the
\* edits {oldText: orig[i], newText: edited[i]} for the indices i up to the
\* shorter length at which the blocks differ, in increasing index order;
\* blocks beyond the shorter length yield no edit; every edit has non-empty,
\* trimmed, different old and new text.
C26_PositionalPairing ==
  (opc \in {"built", "done"} /\ oArgsOk /\ oCounts.original > 0 /\ oCounts.edited > 0)
    => LET o == BlocksOf(oOriginal)
           e == BlocksOf(oEdited)
           n == IF Len(o) < Len(e) THEN Len(o) ELSE Len(e)
           D == {i \in 1..n : o[i] # e[i]}
           Index(j) == CHOOSE i \in D : Cardinality({m \in D : m <= i}) = j
       IN  /\ oCounts = [original |-> Len(o), edited |-> Len(e)]
           /\ Len(oEdits) = Cardinality(D)
           /\ \A j \in 1..Len(oEdits) :
                /\ oEdits[j] = [oldText |-> o[Index(j)], newText |-> e[Index(j)]]
                /\ oEdits[j].oldText # <<>>
                /\ oEdits[j].newText # <<>>
                /\ Trim(oEdits[j].oldText) = oEdits[j].oldText
                /\ Trim(oEdits[j].newText) = oEdits[j].newText
                /\ oEdits[j].oldText # oEdits[j].newText

\* the original holds two blocks and the edited file one, which differs from
\* the original's first block: one edit, and none for the second block
C26_Witness ==
  /\ opc = "built"
  /\ oCounts = [original |-> 2, edited |-> 1]
  /\ Len(oEdits) = 1
  /\ oEdits[1].oldText = BlocksOf(oOriginal)[1]
  /\ oEdits[1].newText = BlocksOf(oEdited)[1]

\* ------------------------------------------------------------------------
\* Properties of the editing affordances
\* ------------------------------------------------------------------------

\* C27: in every reachable state an element that is an edit target is
\* contenteditable exactly when editActive is true, and the links outside
\* the toolbar are blocked exactly when editActive is true (all of them, or
\* none); nothing in the toolbar is ever editable or blocked; enableEdit
\* while active and disableEdit while inactive change nothing; a save that
\* falls back ends with editing active.
C27_AffordancesTrackActive ==
  /\ [](/\ \A e \in ElemSet : IsTarget(text, e) => (e \in editable <=> editActive)
        /\ blocked = (IF editActive THEN Links ELSE {})
        /\ ~editActive => editable = {}
        /\ \A e \in ElemSet : InToolbar(e) => (e \notin editable /\ e \notin blocked))
  /\ [][/\ (HashChange /\ editActive = urlWantsEditMode(urlHash', urlQuery))
             => UNCHANGED <<editActive, orig, editable, blocked, urlQuery>>
        /\ (SaveStep /\ lastSave'.kind = "fallback")
             => (editActive' /\ editable' # {} /\ blocked' = Links)]_vars

\* editing is active after a save that fell back, under a URL that carries
\* #edit: the links are blocked and an edited target is editable
C27_Witness ==
  /\ lastSave.kind = "fallback"
  /\ editActive
  /\ urlHash = EditHash
  /\ blocked = Links
  /\ \E e \in ElemSet : IsTarget(text, e) /\ e \in editable /\ text[e] # ParsedText[e]

\* ------------------------------------------------------------------------
\* Properties of the later copy of the engine
\* ------------------------------------------------------------------------

\* C28: the later copy's saveFile downloads a patched buffer only when every
\* collected edit was matched and replaced in the source; so when the first
\* edit changes text that the source holds nowhere, it uses the fallback.
C28_SecondCopyAllOrNothing ==
  (/\ ppc = "saved"
   /\ Len(edits) >= 1
   /\ edits[1].oldText # edits[1].newText
   /\ edits[1].newText # <<>>
   /\ SplitWords(edits[1].oldText) # <<>>
   /\ Occurrences(SplitWords(edits[1].oldText), src, 0) = {})
    => secondSave.kind = "fallback"

====
